---- MODULE Spec2Model ----
(***************************************************************************)
(* Model of create_shot_by_shot_df (src/strokes_gained_calc.py): the       *)
(* expansion of per-hole records into one row per shot, together with the  *)
(* list of shots that need manual input.                                   *)
(*                                                                         *)
(* Numbers that may be int or float in the DataFrame (score, and what is   *)
(* computed from it) are records [float, halves]: the value is halves/2,   *)
(* and float tells whether Python holds it as a float. Missing values      *)
(* (NaN in the input, None written by the expander) are NA for numbers and *)
(* NoLie for strings.                                                      *)
(***************************************************************************)
EXTENDS Integers, Sequences, FiniteSets, TLC

VARIABLES filtered_df, idx, score, shot_number, expanded_rows,
          manual_input_needed, pc

vars == <<filtered_df, idx, score, shot_number, expanded_rows,
          manual_input_needed, pc>>

\* ---------------------------------------------------------------- bounds
MaxScore == 5
MaxPutts == 3
MaxHoles == 2

\* ------------------------------------------------------------- constants
NumPuttCols == 5

\* a missing number (NaN / None) and a missing string (NaN / None)
NA == -1
NoLie == "<NA>"

notna(x) == x # NA
notna_lie(x) == x # NoLie

IntNum(n) == [float |-> FALSE, halves |-> 2 * n]
FloatNum(h) == [float |-> TRUE, halves |-> h]

\* int(score): truncation toward zero
IntRoundUp(x) == IF x.halves >= 0 THEN (x.halves + 1) \div 2
                 ELSE -((-x.halves) \div 2)
int(x) == IF x.halves >= 0 THEN x.halves \div 2 ELSE -((-x.halves) \div 2)

\* range(1, int(score) + 1)
ShotRange(s) == 1 .. int(s)

\* f'{n}' for an int or a float
FormatNum(x) ==
    LET a == IF x.halves < 0 THEN -x.halves ELSE x.halves
        sign == IF x.halves < 0 THEN "-" ELSE ""
    IN  IF x.float
        THEN sign \o ToString(a \div 2) \o (IF a % 2 = 1 THEN ".5" ELSE ".0")
        ELSE sign \o ToString(a \div 2)

\* f'putt_{putt_number}_distance'
PuttCol(n) == "putt_" \o FormatNum(n) \o "_distance"

\* shot_number - (score - row['putts'])
PuttNumber(shot, sc, putts) ==
    [float |-> sc.float, halves |-> 2 * shot - (sc.halves - 2 * putts)]

\* putt_number + 1
PlusOne(x) == [x EXCEPT !.halves = @ + 2]

\* putt_number < row['putts']
LessThanInt(x, n) == x.halves < 2 * n

\* ------------------------------------------------------------ the input
PuttValue == <<15, 6, 2, 1, 3>>

\* the putt distances recorded for the first m putts of a hole
PuttDistance(m, k) == IF k <= m THEN PuttValue[k] ELSE NA

Scores == {IntNum(n) : n \in 0 .. MaxScore}
            \cup {FloatNum(h) : h \in 0 .. 2 * MaxScore + 1}

TeeBallLocations == {NoLie, "fairway", "sand"}

MakeRecord(hole, par, sc, putts, gir, sand, tee, app, p1, p2, p3, p4, p5) ==
    [round_id |-> 1, hole_number |-> hole, par |-> par, score |-> sc,
     putts |-> putts, gir |-> gir, sand |-> sand, tee_ball_location |-> tee,
     approach_distance |-> app, yardage |-> 400,
     putt_one_distance |-> p1, putt_two_distance |-> p2,
     putt_three_distance |-> p3, putt_four_distance |-> p4,
     putt_five_distance |-> p5]

GridRecords ==
    {MakeRecord(1, par, sc, putts, gir, sand, tee, app,
                PuttDistance(m, 1), PuttDistance(m, 2), PuttDistance(m, 3),
                PuttDistance(m, 4), PuttDistance(m, 5)) :
        par \in {3, 4, 5}, sc \in Scores, putts \in 0 .. MaxPutts,
        gir \in BOOLEAN, sand \in BOOLEAN, tee \in TeeBallLocations,
        app \in {NA, 120}, m \in 0 .. NumPuttCols}

\* the two holes of the worked scenarios, the unstated columns left free
ScenarioARecords ==
    {MakeRecord(1, 4, IntNum(5), 2, gir, sand, "fairway", 120,
                15, 2, NA, NA, NA) : gir \in BOOLEAN, sand \in BOOLEAN}

ScenarioBRecords ==
    {MakeRecord(1, 3, IntNum(3), 2, TRUE, sand, tee, app,
                10, 1, NA, NA, NA) :
        sand \in BOOLEAN, tee \in TeeBallLocations, app \in {NA, 120}}

HoleRecords == GridRecords \cup ScenarioARecords \cup ScenarioBRecords

\* a round of several holes is drawn from these
SampleRecords ==
    {MakeRecord(1, 4, IntNum(5), 2, FALSE, FALSE, "fairway", 120,
                15, 2, NA, NA, NA),
     MakeRecord(1, 3, IntNum(3), 2, TRUE, TRUE, NoLie, 120,
                10, 1, NA, NA, NA),
     MakeRecord(1, 3, FloatNum(5), 1, FALSE, FALSE, NoLie, NA,
                6, NA, NA, NA, NA),
     MakeRecord(1, 3, IntNum(4), 2, FALSE, TRUE, NoLie, 120,
                NA, NA, NA, NA, NA),
     MakeRecord(1, 5, IntNum(4), 3, FALSE, FALSE, "sand", 120,
                15, 6, 2, NA, NA),
     MakeRecord(1, 4, IntNum(0), 0, FALSE, FALSE, NoLie, NA,
                NA, NA, NA, NA, NA)}

\* the rows of a table are numbered by hole in the order they are played
Numbered(f) == [j \in DOMAIN f |-> [f[j] EXCEPT !.hole_number = j]]

Rounds ==
    {Numbered(f) : f \in UNION {[1 .. n -> SampleRecords] : n \in 0 .. MaxHoles}}

Tables == {<<r>> : r \in HoleRecords} \cup Rounds

\* ------------------------------------------------- the per-shot branches
GapEntry(row, shot, missing) ==
    [round_id |-> row.round_id, hole_number |-> row.hole_number,
     shot_number |-> shot, missing_data |-> missing]

LandingOnly == "landing_location_distance"
LandingBoth == "landing_location_lie and landing_location_distance"

\* shot_row = row.copy() with the five derived columns set
ShotRow(row, shot, slie, sdist, llie, ldist) ==
    row @@ [shot_number |-> shot,
            starting_location_lie |-> slie,
            starting_location_distance |-> sdist,
            landing_location_lie |-> llie,
            landing_location_distance |-> ldist]

Result(r, gaps) == [shot_row |-> r, gaps |-> gaps]

\* TeeShot with the sand test made before the gir test
TeeShotSandFirst(row, shot) ==
    LET sdist == IF row.par = 3 /\ notna(row.approach_distance)
                 THEN row.approach_distance ELSE row.yardage
    IN  IF row.par = 3
        THEN IF row.sand = TRUE
             THEN Result(ShotRow(row, shot, "tee", sdist, "sand", NA),
                         <<GapEntry(row, shot, LandingOnly)>>)
             ELSE IF row.gir = TRUE
             THEN Result(ShotRow(row, shot, "tee", sdist, "green",
                                 row.putt_one_distance), <<>>)
             ELSE Result(ShotRow(row, shot, "tee", sdist, NoLie, NA),
                         <<GapEntry(row, shot, LandingOnly)>>)
        ELSE Result(ShotRow(row, shot, "tee", sdist, NoLie, NA),
                    <<GapEntry(row, shot, LandingBoth)>>)

\* lines 64-124: the first shot
TeeShot(row, shot) ==
    LET sdist == IF row.par = 3 /\ "approach_distance" \in DOMAIN row
                      /\ notna(row.approach_distance)
                 THEN row.approach_distance ELSE row.yardage
    IN  IF row.par = 3
        THEN IF row.gir = TRUE
             THEN Result(ShotRow(row, shot, "tee", sdist, "green",
                                 row.putt_one_distance), <<>>)
             ELSE IF row.sand = TRUE
             THEN Result(ShotRow(row, shot, "tee", sdist, "sand", NA),
                         <<GapEntry(row, shot, LandingOnly)>>)
             ELSE Result(ShotRow(row, shot, "tee", sdist, NoLie, NA),
                         <<GapEntry(row, shot, LandingBoth)>>)
        ELSE IF notna_lie(row.tee_ball_location)
             THEN IF row.tee_ball_location \in {"fairway", "rough", "trap"}
                       /\ notna(row.approach_distance)
                  THEN Result(ShotRow(row, shot, "tee", sdist,
                                      row.tee_ball_location,
                                      row.approach_distance), <<>>)
                  ELSE Result(ShotRow(row, shot, "tee", sdist,
                                      row.tee_ball_location, NA),
                              <<GapEntry(row, shot, LandingOnly)>>)
             ELSE Result(ShotRow(row, shot, "tee", sdist, NoLie, NA),
                         <<GapEntry(row, shot, LandingBoth)>>)

\* SecondShot taken as the first putt when the green was hit in regulation
SecondShotPuttsOnGir(row, shot) ==
    IF row.gir = TRUE
    THEN Result(ShotRow(row, shot, "green", row.putt_one_distance,
                        "green", row.putt_two_distance), <<>>)
    ELSE Result(ShotRow(row, shot, row.tee_ball_location,
                        row.approach_distance, NoLie, NA),
                <<GapEntry(row, shot, LandingBoth)>>)

\* lines 126-148: the second shot
SecondShot(row, shot) ==
    LET slie == IF notna_lie(row.tee_ball_location)
                THEN row.tee_ball_location ELSE "unknown"
        sdist == IF "approach_distance" \in DOMAIN row
                      /\ notna(row.approach_distance)
                 THEN row.approach_distance ELSE NA
    IN  Result(ShotRow(row, shot, slie, sdist, NoLie, NA),
               <<GapEntry(row, shot, LandingBoth)>>)

\* lines 150-164: shot_number > putts + 1
ApproachShot(row, shot) ==
    Result(ShotRow(row, shot, "approach", NA, NoLie, NA),
           <<GapEntry(row, shot, LandingBoth)>>)

\* lines 166-188: the remaining shots
Putt(row, shot, sc) ==
    LET putt_number == PuttNumber(shot, sc, row.putts)
        putt_distance_col == PuttCol(putt_number)
        next_putt_col == PuttCol(PlusOne(putt_number))
        sdist == IF putt_distance_col \in DOMAIN row
                 THEN row[putt_distance_col] ELSE NA
    IN  IF LessThanInt(putt_number, row.putts)
        THEN Result(ShotRow(row, shot, "green", sdist, "green",
                            IF next_putt_col \in DOMAIN row
                            THEN row[next_putt_col] ELSE NA), <<>>)
        ELSE Result(ShotRow(row, shot, "green", sdist, "hole", 0), <<>>)

\* lines 64-188: the if / elif chain on shot_number
ExpandShot(r, shot) ==
    IF shot = 1 THEN TeeShot(r, shot)
    ELSE IF shot = 2 THEN SecondShot(r, shot)
    ELSE IF shot > r.putts + 1 THEN ApproachShot(r, shot)
    ELSE Putt(r, shot, r.score)

\* lines 56-191 run on one record alone: its rows and its gap entries
RECURSIVE ExpandUpTo(_, _)
ExpandUpTo(r, n) ==
    IF n <= 0 THEN Result(<<>>, <<>>)
    ELSE LET before == ExpandUpTo(r, n - 1)
             this == ExpandShot(r, n)
         IN  Result(before.shot_row \o <<this.shot_row>>,
                    before.gaps \o this.gaps)

ExpandAlone(r) == ExpandUpTo(r, int(r.score))

\* ------------------------------------------------------------ the loop
Init ==
    /\ filtered_df \in Tables
    /\ idx = 0
    /\ score = IntNum(0)
    /\ shot_number = 1
    /\ expanded_rows = <<>>
    /\ manual_input_needed = <<>>
    /\ pc = "iterrows"

row == filtered_df[idx]

\* lines 190-191 and the appends to manual_input_needed
Emit(res) ==
    /\ expanded_rows' = Append(expanded_rows, res.shot_row)
    /\ manual_input_needed' = manual_input_needed \o res.gaps
    /\ shot_number' = shot_number + 1
    /\ UNCHANGED <<filtered_df, idx, score, pc>>

\* NextRow with the score read once, from the first row only
NextRowStaleScore ==
    /\ pc = "iterrows"
    /\ idx < Len(filtered_df)
    /\ idx' = idx + 1
    /\ score' = filtered_df[1].score
    /\ shot_number' = 1
    /\ pc' = "shots"
    /\ UNCHANGED <<filtered_df, expanded_rows, manual_input_needed>>

\* lines 52-53
NextRow ==
    /\ pc = "iterrows"
    /\ idx < Len(filtered_df)
    /\ idx' = idx + 1
    /\ score' = filtered_df[idx + 1].score
    /\ shot_number' = 1
    /\ pc' = "shots"
    /\ UNCHANGED <<filtered_df, expanded_rows, manual_input_needed>>

TeeShotStep ==
    /\ pc = "shots"
    /\ shot_number \in ShotRange(score)
    /\ shot_number = 1
    /\ Emit(TeeShot(row, shot_number))

SecondShotStep ==
    /\ pc = "shots"
    /\ shot_number \in ShotRange(score)
    /\ shot_number # 1
    /\ shot_number = 2
    /\ Emit(SecondShot(row, shot_number))

ApproachShotStep ==
    /\ pc = "shots"
    /\ shot_number \in ShotRange(score)
    /\ shot_number # 1
    /\ shot_number # 2
    /\ shot_number > row.putts + 1
    /\ Emit(ApproachShot(row, shot_number))

PuttStep ==
    /\ pc = "shots"
    /\ shot_number \in ShotRange(score)
    /\ shot_number # 1
    /\ shot_number # 2
    /\ ~(shot_number > row.putts + 1)
    /\ Emit(Putt(row, shot_number, score))

\* the inner loop is exhausted
EndRow ==
    /\ pc = "shots"
    /\ shot_number \notin ShotRange(score)
    /\ pc' = "iterrows"
    /\ UNCHANGED <<filtered_df, idx, score, shot_number, expanded_rows,
                   manual_input_needed>>

\* lines 193-199
Return ==
    /\ pc = "iterrows"
    /\ idx = Len(filtered_df)
    /\ pc' = "done"
    /\ UNCHANGED <<filtered_df, idx, score, shot_number, expanded_rows,
                   manual_input_needed>>

Next ==
    \/ NextRow
    \/ TeeShotStep
    \/ SecondShotStep
    \/ ApproachShotStep
    \/ PuttStep
    \/ EndRow
    \/ Return

Spec == Init /\ [][Next]_vars

\* ============================================================ properties
Done == pc = "done"

Holes == 1 .. Len(filtered_df)

\* the rows and the gap entries that name hole h (holes are numbered by
\* their position in the table)
RowsOf(h) == SelectSeq(expanded_rows, LAMBDA r : r.hole_number = h)

GapsOf(h, s) ==
    SelectSeq(manual_input_needed,
              LAMBDA g : g.round_id = filtered_df[h].round_id
                         /\ g.hole_number = h /\ g.shot_number = s)

Rows == {expanded_rows[k] : k \in 1 .. Len(expanded_rows)}

WholeScore(r) == r.score.halves % 2 = 0

ScoreOf(r) == r.score.halves \div 2

Landing(r) == <<r.landing_location_lie, r.landing_location_distance>>

Starting(r) == <<r.starting_location_lie, r.starting_location_distance>>

Positions(r) == <<Starting(r), Landing(r)>>

\* the k-th of putt_one_distance ... putt_five_distance
PuttDistanceOf(r, k) ==
    CASE k = 1 -> r.putt_one_distance
      [] k = 2 -> r.putt_two_distance
      [] k = 3 -> r.putt_three_distance
      [] k = 4 -> r.putt_four_distance
      [] k = 5 -> r.putt_five_distance
      [] OTHER -> NA

\* a row written by the putting branch: only it gives a shot after the
\* second the starting lie "green"
IsPuttRow(r) == r.shot_number >= 3 /\ r.starting_location_lie = "green"

IsApproachRow(r) == r.shot_number >= 3 /\ r.starting_location_lie = "approach"

\* C1: when the expansion has returned, every hole record has given exactly
\* as many rows as its score truncated to an integer (n rows with
\* n <= score < n + 1), and their shot numbers are 1, 2, ..., n in order.
C1_ShotCount ==
    Done =>
        \A h \in Holes :
            LET rs == RowsOf(h)
                n == Len(rs)
            IN  /\ 2 * n <= filtered_df[h].score.halves
                /\ filtered_df[h].score.halves < 2 * n + 2
                /\ \A k \in 1 .. n : rs[k].shot_number = k

C1_Witness ==
    /\ Done
    /\ \E h \in Holes :
           /\ ~WholeScore(filtered_df[h])
           /\ Len(RowsOf(h)) >= 3

\* C2: for a hole with putts >= 1 and score >= putts + 1, the row of the
\* last stroke (shot_number = score) lands in the hole at distance 0.
C2_FinalPuttHoled ==
    Done =>
        \A h \in Holes :
            LET r == filtered_df[h]
                rs == RowsOf(h)
            IN  (WholeScore(r) /\ r.putts >= 1 /\ ScoreOf(r) >= r.putts + 1)
                    => /\ Len(rs) = ScoreOf(r)
                       /\ rs[Len(rs)].shot_number = ScoreOf(r)
                       /\ Landing(rs[Len(rs)]) = <<"hole", 0>>

\* C3: the first shot of a par-3 hole lands on the green with no gap entry
\* when gir is true, and has both landing fields unknown with exactly one
\* gap entry, "landing_location_lie and landing_location_distance", when
\* gir and sand are both false.
C3_Par3TeeShot ==
    \A r \in Rows :
        (r.par = 3 /\ r.shot_number = 1) =>
            /\ r.gir =>
                   /\ r.landing_location_lie = "green"
                   /\ GapsOf(r.hole_number, 1) = <<>>
            /\ (~r.gir /\ ~r.sand) =>
                   /\ Landing(r) = <<NoLie, NA>>
                   /\ Len(GapsOf(r.hole_number, 1)) = 1
                   /\ GapsOf(r.hole_number, 1)[1].missing_data = LandingBoth

C3_Witness ==
    /\ Done
    /\ \E r \in Rows : r.par = 3 /\ r.shot_number = 1 /\ r.gir /\ r.sand
    /\ \E r \in Rows : r.par = 3 /\ r.shot_number = 1 /\ ~r.gir /\ ~r.sand

\* C4: scenario A (par 4, score 5, 2 putts, tee ball on the fairway,
\* approach 120, putts of 15 and 2) gives the five rows tee/yardage ->
\* fairway/120, fairway/120 -> unknown (gap), approach/unknown -> unknown
\* (gap), green/15 -> green/2, green/2 -> hole/0.
C4_ScenarioA ==
    (Done /\ Len(filtered_df) = 1 /\ filtered_df[1] \in ScenarioARecords) =>
        /\ [k \in 1 .. Len(expanded_rows) |-> Positions(expanded_rows[k])]
             = << <<<<"tee", filtered_df[1].yardage>>, <<"fairway", 120>>>>,
                  <<<<"fairway", 120>>, <<NoLie, NA>>>>,
                  <<<<"approach", NA>>, <<NoLie, NA>>>>,
                  <<<<"green", 15>>, <<"green", 2>>>>,
                  <<<<"green", 2>>, <<"hole", 0>>>> >>
        /\ [k \in 1 .. Len(manual_input_needed) |->
                manual_input_needed[k].shot_number] = <<2, 3>>

\* C5: scenario B (par 3, score 3, 2 putts, gir, putts of 10 and 1) gives
\* the three rows tee/approach-or-yardage -> green/10, green/10 -> green/1,
\* green/1 -> hole/0, and no gap entry.
C5_ScenarioB ==
    (Done /\ Len(filtered_df) = 1 /\ filtered_df[1] \in ScenarioBRecords) =>
        /\ [k \in 1 .. Len(expanded_rows) |-> Positions(expanded_rows[k])]
             = << <<<<"tee", IF filtered_df[1].approach_distance # NA
                            THEN filtered_df[1].approach_distance
                            ELSE filtered_df[1].yardage>>, <<"green", 10>>>>,
                  <<<<"green", 10>>, <<"green", 1>>>>,
                  <<<<"green", 1>>, <<"hole", 0>>>> >>
        /\ manual_input_needed = <<>>

\* C6: a row whose landing lie or distance is unknown has exactly one gap
\* entry, naming the distance when only the distance is unknown and both
\* fields when both are unknown; a row whose landing is known has none.
C6_GapCompleteness ==
    \A r \in Rows :
        LET gaps == GapsOf(r.hole_number, r.shot_number)
            noLie == r.landing_location_lie = NoLie
            noDist == r.landing_location_distance = NA
        IN  /\ (noLie /\ noDist) =>
                    Len(gaps) = 1 /\ gaps[1].missing_data = LandingBoth
            /\ (~noLie /\ noDist) =>
                    Len(gaps) = 1 /\ gaps[1].missing_data = LandingOnly
            /\ (~noLie /\ ~noDist) => gaps = <<>>

\* C7: whatever par, putts, gir and sand are, the row of shot 2 starts at
\* tee_ball_location (the sentinel "unknown" when that is missing) and at
\* approach_distance (unknown when that is missing), has both landing
\* fields unknown, and has exactly one gap entry, naming both fields.
C7_SecondShot ==
    \A r \in Rows :
        r.shot_number = 2 =>
            /\ r.starting_location_lie =
                   (IF r.tee_ball_location # NoLie
                    THEN r.tee_ball_location ELSE "unknown")
            /\ r.starting_location_distance = r.approach_distance
            /\ Landing(r) = <<NoLie, NA>>
            /\ Len(GapsOf(r.hole_number, 2)) = 1
            /\ GapsOf(r.hole_number, 2)[1].missing_data = LandingBoth

C7_Witness ==
    /\ Done
    /\ \E r \in Rows :
           /\ r.shot_number = 2
           /\ r.par = 3 /\ r.gir /\ r.putts >= 2
           /\ r.tee_ball_location = NoLie
           /\ r.starting_location_lie = "unknown"

\* C8: for a hole with score >= putts >= 0, every row of the putting branch
\* has putt_number = shot_number - (score - putts) in 1 .. putts, and every
\* "approach" row comes before every putting row of the hole.
C8_PuttIndex ==
    \A r \in Rows :
        (WholeScore(r) /\ ScoreOf(r) >= r.putts /\ IsPuttRow(r)) =>
            /\ r.shot_number - (ScoreOf(r) - r.putts) \in 1 .. r.putts
            /\ \A a \in Rows :
                   (a.hole_number = r.hole_number /\ IsApproachRow(a))
                       => a.shot_number < r.shot_number

\* C9: a putting row with putt index k in 1 .. 5 starts at the k-th putt
\* distance when that is recorded, and, when k < putts and the (k+1)-th
\* putt distance is recorded, lands on the green at that distance.
C9_PuttDistances ==
    \A r \in Rows :
        (WholeScore(r) /\ IsPuttRow(r)) =>
            LET k == r.shot_number - (ScoreOf(r) - r.putts)
            IN  k \in 1 .. NumPuttCols =>
                    /\ PuttDistanceOf(r, k) # NA =>
                           r.starting_location_distance = PuttDistanceOf(r, k)
                    /\ (k < r.putts /\ PuttDistanceOf(r, k + 1) # NA) =>
                           Landing(r) = <<"green", PuttDistanceOf(r, k + 1)>>

\* the concatenation, in table order, of what each record gives alone
RECURSIVE ConcatAlone(_)
ConcatAlone(n) ==
    IF n = 0 THEN Result(<<>>, <<>>)
    ELSE LET before == ConcatAlone(n - 1)
             this == ExpandAlone(filtered_df[n])
         IN  Result(before.shot_row \o this.shot_row,
                    before.gaps \o this.gaps)

\* the position in expanded_rows of the stroke a gap entry names
RowIndex(g) ==
    {k \in 1 .. Len(expanded_rows) :
        /\ expanded_rows[k].round_id = g.round_id
        /\ expanded_rows[k].hole_number = g.hole_number
        /\ expanded_rows[k].shot_number = g.shot_number}

\* C10: the rows returned are the concatenation, in input order, of the
\* rows each record gives when expanded alone, and so are the gap entries;
\* the gap entries name strokes in the order of the rows, at most one each.
C10_Stateless ==
    Done =>
        /\ expanded_rows = ConcatAlone(Len(filtered_df)).shot_row
        /\ manual_input_needed = ConcatAlone(Len(filtered_df)).gaps
        /\ \A i \in 1 .. Len(manual_input_needed) :
               Cardinality(RowIndex(manual_input_needed[i])) = 1
        /\ \A i, j \in 1 .. Len(manual_input_needed) :
               i < j =>
                   \A a \in RowIndex(manual_input_needed[i]),
                      b \in RowIndex(manual_input_needed[j]) : a < b

C10_Witness ==
    /\ Done
    /\ Len(filtered_df) >= 2
    /\ int(filtered_df[1].score) # int(filtered_df[2].score)
    /\ Len(RowsOf(1)) >= 3
    /\ Len(RowsOf(2)) >= 3
    /\ Len(manual_input_needed) >= 4

====
